---------------------------- MODULE Spec2Model ----------------------------
(***************************************************************************)
(* A model of backend/main.py: the PDF utilities service.                  *)
(*                                                                         *)
(* State: the workspace directory UPLOAD_DIR (fs), the wall clock, whether *)
(* the server process is up, what the last cleanup did, and for every      *)
(* request its handler's local variables, position and response.           *)
(*                                                                         *)
(* What the handlers read from their environment is a choice made where    *)
(* they read it: whether a Ghostscript binary is on PATH, whether the      *)
(* frontend build exists, how the external tool exits and what it leaves   *)
(* in its output file, whether os.remove fails.                            *)
(*                                                                         *)
(* Spec follows one request through every outcome of the tool.             *)
(* ServingSpec runs two requests side by side with a well-behaved tool.    *)
(***************************************************************************)
EXTENDS Integers, Sequences, FiniteSets, TLC

VARIABLES
    up,         \* the server process has run startup_event and serves requests
    clock,      \* datetime.now(): [sec, us]
    fs,         \* UPLOAD_DIR: path -> [isfile, size, mtime, by, pages]
    lastSweep,  \* what the last cleanup_old_files() did: [now, removed, errors]
    req         \* request id -> the handler's locals, position and response

vars == <<up, clock, fs, lastSweep, req>>

-----------------------------------------------------------------------------
(* Bounds of the model *)

\* file sizes (bytes) range over 0..MaxSize
MaxSize == 2
\* the clock advances by at most MaxHours periods of MaxAge seconds
MaxHours == 1
\* at most MaxRemoveErrors calls of os.remove fail in one cleanup
MaxRemoveErrors == 1
\* a merge request uploads at most MaxFiles files
MaxFiles == 2

\* file_age > 3600 in cleanup_old_files
MaxAge == 3600
\* the aggressive method is tried for level < 2
AggressiveBelow == 2

\* requests handled at the same time (worker processes or event-loop tasks)
Requests == {"r1", "r2"}

Sizes == 0..MaxSize

\* the values the microsecond field of the clock takes
Micros == {0, 1}

\* level: int, any integer the client sends
Levels == -1..4

-----------------------------------------------------------------------------
(* Time *)

Time(s, u) == [sec |-> s, us |-> u]

\* now - mtime > limit, for timestamps with a microsecond fraction
AgeExceeds(now, mtime, limit) ==
    \/ now.sec - mtime.sec > limit
    \/ now.sec - mtime.sec = limit /\ now.us > mtime.us

\* strftime('%Y%m%d_%H%M%S'): the timestamp cut to whole seconds
StampSeconds(t) == <<t.sec>>

\* strftime('%Y%m%d_%H%M%S_%f'): seconds and microseconds
StampMicros(t) == <<t.sec, t.us>>

-----------------------------------------------------------------------------
(* The workspace *)

By(r, attempt) == [req |-> r, attempt |-> attempt]

\* a directory entry: a regular file or a sub-directory
Entry(isfile, size, mtime, by, pages) ==
    [isfile |-> isfile, size |-> size, mtime |-> mtime, by |-> by, pages |-> pages]

Exists(dir, p) == p \in DOMAIN dir

\* open(p, "wb") + write, or the tool's -sOutputFile=p: creates or replaces p
WriteFile(dir, p, e) == [q \in DOMAIN dir \cup {p} |-> IF q = p THEN e ELSE dir[q]]

\* os.remove(p)
RemoveFiles(dir, ps) == [q \in DOMAIN dir \ ps |-> dir[q]]

\* a path left in the workspace by an earlier run of the service
StalePath == <<"stale">>

-----------------------------------------------------------------------------
(* cleanup_old_files *)

\* (the comparison written >= instead of >)
ExpiredAtOrAfter(e, now) ==
    /\ e.isfile
    /\ \/ AgeExceeds(now, e.mtime, MaxAge)
       \/ (now.sec - e.mtime.sec = MaxAge /\ now.us = e.mtime.us)

\* the entries cleanup_old_files tries to os.remove
Expired(e, now) == e.isfile /\ AgeExceeds(now, e.mtime, MaxAge)

\* One run of cleanup_old_files: errs are the paths whose os.remove raises
\* (caught, printed "Cleanup error", the file stays).
CleanupOldFiles(errs) ==
    LET now == clock
        old == {p \in DOMAIN fs : Expired(fs[p], now)}
    IN  /\ errs \subseteq old
        /\ fs' = RemoveFiles(fs, old \ errs)
        /\ lastSweep' = [now |-> now, removed |-> old \ errs, errors |-> errs]

-----------------------------------------------------------------------------
(* Routing: app.get / app.post / app.mount in the order the module runs them *)

IsPrefix(s, t) == Len(s) <= Len(t) /\ SubSeq(t, 1, Len(s)) = s

PathRoot       == <<>>
PathHealth     == <<"api", "health">>
PathMerge      == <<"api", "pdf", "merge">>
PathCompress   == <<"api", "pdf", "compress">>
PathStaticJs   == <<"static", "main.js">>
PathAbout      == <<"about">>

GetPaths == {PathRoot, PathHealth, PathMerge, PathStaticJs, PathAbout}

Route(kind, segs, methods, handler) ==
    [kind |-> kind, segs |-> segs, methods |-> methods, handler |-> handler]

\* app.router.routes, in registration order. mount: FRONTEND_DIR existed when
\* the module was imported, so /static is mounted (lines 43-44).
Routes(mount) ==
    (IF mount THEN << Route("mount", <<"static">>, {}, "static") >> ELSE << >>)
    \o << Route("exact", PathRoot, {"GET"}, "serve_react"),
          Route("param_path", <<>>, {"GET"}, "serve_frontend"),
          Route("exact", PathHealth, {"GET"}, "health_check"),
          Route("exact", PathMerge, {"POST"}, "merge_pdfs"),
          Route("exact", PathCompress, {"POST"}, "compress_pdf") >>

\* Starlette's Route.matches / Mount.matches: FULL, PARTIAL (path fits, method
\* does not) or NONE. "/{full_path:path}" compiles to ^/(?P<full_path>.*)$.
Matches(route, method, path) ==
    LET fits == IF route.kind = "exact" THEN path = route.segs
                ELSE IsPrefix(route.segs, path)
    IN  IF ~fits THEN "NONE"
        ELSE IF route.kind = "mount" \/ method \in route.methods THEN "FULL"
        ELSE "PARTIAL"

\* Starlette's Router: the first FULL match answers; failing that the first
\* PARTIAL one (405); failing that 404.
Dispatch(mount, method, path) ==
    LET routes == Routes(mount)
        full == {i \in 1..Len(routes) : Matches(routes[i], method, path) = "FULL"}
        part == {i \in 1..Len(routes) : Matches(routes[i], method, path) = "PARTIAL"}
        first(S) == CHOOSE i \in S : \A j \in S : i <= j
    IN  IF full # {} THEN routes[first(full)].handler
        ELSE IF part # {} THEN "method_not_allowed"
        ELSE "not_found"

NoTime == Time(-1, 0)

NoJson == [keys |-> {}, status |-> "", timestamp |-> NoTime]

JsonBody(keys, status, timestamp) ==
    [keys |-> keys, status |-> status, timestamp |-> timestamp]

-----------------------------------------------------------------------------
(* Uploaded files *)

\* file names, as character sequences
NamePdf   == <<"a", ".", "p", "d", "f">>
NameUpper == <<"B", ".", "P", "D", "F">>
NameTxt   == <<"n", ".", "t", "x", "t">>
NameBare  == <<"p", "d", "f">>

FileNames == {NamePdf, NameUpper, NameTxt, NameBare}

\* str.lower(), on the characters the names use
LowerChar(c) ==
    CASE c = "B" -> "b" [] c = "P" -> "p" [] c = "D" -> "d" [] c = "F" -> "f"
      [] OTHER -> c

Lower(name) == [i \in 1..Len(name) |-> LowerChar(name[i])]

EndsWith(name, suffix) ==
    /\ Len(suffix) <= Len(name)
    /\ SubSeq(name, Len(name) - Len(suffix) + 1, Len(name)) = suffix

\* filename.lower().endswith(".pdf")
IsPdfName(name) == EndsWith(Lower(name), <<".", "p", "d", "f">>)

-----------------------------------------------------------------------------
(* Requests *)

NoPath == <<"-">>

NoHeaders == [orig |-> -1, comp |-> -1, reduction |-> -1, preset |-> ""]

NoDiag == [attempt |-> "", text |-> ""]

\* a response: the handler that gave it, the status code, the error detail
\* and the diagnostic text in it, the X-... headers, the file streamed as the
\* body or the JSON object returned
Response(code, detail, diag, headers, bodyPath, body) ==
    [handler |-> "", code |-> code, detail |-> detail, diag |-> diag,
     headers |-> headers, bodyPath |-> bodyPath, body |-> body, json |-> NoJson]

NoEntry == [isfile |-> FALSE, size |-> -1, mtime |-> NoTime,
            by |-> [req |-> "", attempt |-> ""], pages |-> <<>>]

NoResponse == Response(0, "", NoDiag, NoHeaders, NoPath, NoEntry)

ErrorResponse(code, detail, diag) ==
    Response(code, detail, diag, NoHeaders, NoPath, NoEntry)

\* a handler's locals; pc is its position
IdleReq ==
    [pc |-> "idle", kind |-> "", path |-> NoPath, level |-> 0, content |-> 0, files |-> <<>>,
     ts |-> <<>>, output_path |-> NoPath,
     gs |-> FALSE, compression_success |-> FALSE, aggressive_ok |-> FALSE, stderr_output |-> NoDiag,
     fallback_error |-> NoDiag, orig_size |-> -1, comp_size |-> -1,
     gsCalls |-> 0, ran |-> {}, written |-> {}, before |-> NoEntry,
     resp |-> NoResponse]

InputPath(ts)    == <<"input">> \o ts
OutputPath(ts)   == <<"compressed">> \o ts
FallbackPath(ts) == <<"fallback">> \o ts
MergedPath(ts)   == <<"merged">> \o ts

\* the handler returns (or raises): only the response and what the claims
\* observe of the request are kept
Finished(q, resp) ==
    [IdleReq EXCEPT !.pc = "done", !.kind = q.kind, !.level = q.level,
                    !.ts = q.ts, !.gs = q.gs, !.gsCalls = q.gsCalls,
                    !.ran = q.ran, !.written = q.written, !.before = q.before,
                    !.path = q.path, !.aggressive_ok = q.aggressive_ok,
                    !.resp = [resp EXCEPT !.handler = q.kind]]

ValidLevels == 0..3

\* quality_settings[level]['preset']
Preset(level) == <<"/screen", "/ebook", "/printer", "/prepress">>[level + 1]

\* -dPDFSETTINGS of the three command lines (lines 215, 274, 346): the
\* preset an attempt runs the tool with
AttemptPreset(attempt, level) ==
    IF attempt = "primary" THEN Preset(level) ELSE "/screen"

\* what one run of the external tool can do: subprocess.run returns ("ok"),
\* or raises CalledProcessError, TimeoutExpired or OSError ("failed"); the
\* output file is left as it was (-1) or written with some size
Exits == {"ok", "failed"}
Effects == {-1} \cup Sizes

\* the tool's effect on the workspace: nothing (eff < 0), or the output file
\* created or replaced with eff bytes
RunTool(dir, path, eff, by) ==
    IF eff < 0 THEN dir ELSE WriteFile(dir, path, Entry(TRUE, eff, clock, by, <<>>))

\* os.path.exists(p) and os.path.getsize(p) > 0
NonEmpty(dir, p) == Exists(dir, p) /\ dir[p].size > 0

-----------------------------------------------------------------------------
(* GET handlers. index: os.path.exists(index_path) *)

\* serve_react, lines 47-52
ServeReact(index) ==
    IF index THEN Response(200, "", NoDiag, NoHeaders, <<"index.html">>, NoEntry)
    ELSE [NoResponse EXCEPT !.code = 200, !.json = JsonBody({"message"}, "", NoTime)]

\* serve_frontend, lines 85-93
ServeFrontend(index) ==
    IF index THEN Response(200, "", NoDiag, NoHeaders, <<"index.html">>, NoEntry)
    ELSE [NoResponse EXCEPT !.code = 200,
              !.json = JsonBody({"message", "status"}, "backend-only mode", NoTime)]

\* health_check, lines 99-101
HealthCheck ==
    [NoResponse EXCEPT !.code = 200,
         !.json = JsonBody({"status", "timestamp"}, "healthy", clock)]

\* One GET request, from routing to the response
HttpGet(r, mount, path, index) ==
    /\ up /\ req[r].pc = "idle"
    /\ LET h == Dispatch(mount, "GET", path)
           resp == IF h = "serve_react" THEN ServeReact(index)
                   ELSE IF h = "serve_frontend" THEN ServeFrontend(index)
                   ELSE IF h = "health_check" THEN HealthCheck
                   ELSE IF h = "method_not_allowed"
                   THEN ErrorResponse(405, "Method Not Allowed", NoDiag)
                   ELSE ErrorResponse(404, "Not Found", NoDiag)
       IN  req' = [req EXCEPT ![r] =
               Finished([IdleReq EXCEPT !.kind = h, !.path = path], resp)]
    /\ UNCHANGED <<up, clock, fs, lastSweep>>

-----------------------------------------------------------------------------
(* compress_pdf *)

\* lines 148-154: the name check and the three paths
CompressStart(r, name, level, content) ==
    /\ up /\ req[r].pc = "idle"
    /\ \A mount \in BOOLEAN : Dispatch(mount, "POST", PathCompress) = "compress_pdf"
    /\ req' = [req EXCEPT ![r] =
         IF ~IsPdfName(name)
         THEN Finished([IdleReq EXCEPT !.kind = "compress_pdf", !.path = PathCompress],
                       ErrorResponse(400, "File must be a PDF", NoDiag))
         ELSE [IdleReq EXCEPT !.pc = "save", !.kind = "compress_pdf",
                              !.path = PathCompress, !.level = level,
                              !.content = content, !.ts = StampMicros(clock),
                              !.output_path = OutputPath(StampMicros(clock))]]
    /\ UNCHANGED <<up, clock, fs, lastSweep>>

\* lines 156-208: save the upload, then check the level, then locate the tool.
\* gs: shutil.which finds one of the Ghostscript binaries.
CompressSave(r, gs) ==
    LET q == req[r]
        q1 == [q EXCEPT !.written = @ \cup {InputPath(q.ts)}, !.content = 0,
                        !.gs = gs /\ q.level \in ValidLevels]
    IN  /\ q.pc = "save"
        /\ fs' = WriteFile(fs, InputPath(q.ts),
                           Entry(TRUE, q.content, clock, By(r, "upload"), <<>>))
        /\ req' = [req EXCEPT ![r] =
             IF q.level \notin ValidLevels
             THEN Finished(q1, ErrorResponse(400,
                      "Compression level must be 0, 1, 2, or 3", NoDiag))
             ELSE IF ~gs
             THEN Finished(q1, ErrorResponse(500, "Ghostscript not found", NoDiag))
             ELSE [q1 EXCEPT !.pc = "primary"]]
        /\ UNCHANGED <<up, clock, lastSweep>>

\* lines 245-264: the primary attempt
CompressPrimary(r, exit, eff) ==
    LET q == req[r]
    IN  /\ q.pc = "primary"
        /\ fs' = RunTool(fs, q.output_path, eff, By(r, "primary"))
        /\ req' = [req EXCEPT ![r] =
             [q EXCEPT !.pc = "fallback",
                       !.gsCalls = @ + 1,
                       !.ran = @ \cup {"primary"},
                       !.written = IF eff < 0 THEN @ ELSE @ \cup {q.output_path},
                       !.compression_success = (exit = "ok"),
                       !.stderr_output = [attempt |-> "primary", text |-> exit]]]
        /\ UNCHANGED <<up, clock, lastSweep>>

\* (only the exit status looked at, not the output file)
NoOutputExitOnly(q) == ~q.compression_success

\* line 267 (and 309): no usable output at output_path
NoOutput(q) == ~q.compression_success \/ ~NonEmpty(fs, q.output_path)

\* (the fallback attempt tried again while it fails, up to four tool runs)
CompressFallbackRetrying(r, exit, eff) ==
    LET q == req[r]
        dir == RunTool(fs, FallbackPath(q.ts), eff, By(r, "fallback"))
        good == exit = "ok" /\ NonEmpty(dir, FallbackPath(q.ts))
    IN  /\ q.pc = "fallback"
        /\ NoOutput(q)
        /\ fs' = dir
        /\ req' = [req EXCEPT ![r] =
             [q EXCEPT !.pc = IF good \/ q.gsCalls >= 3 THEN "verify" ELSE "fallback",
                       !.gsCalls = @ + 1,
                       !.ran = @ \cup {"fallback"},
                       !.written = IF eff < 0 THEN @ ELSE @ \cup {FallbackPath(q.ts)},
                       !.output_path = IF good THEN FallbackPath(q.ts) ELSE @,
                       !.compression_success = IF good THEN TRUE ELSE @,
                       !.fallback_error = IF exit = "ok" THEN @
                                          ELSE [attempt |-> "fallback", text |-> exit]]]
        /\ UNCHANGED <<up, clock, lastSweep>>

\* lines 266-307: the fallback attempt, when the primary one left no output
CompressFallback(r, exit, eff) ==
    LET q == req[r]
        dir == RunTool(fs, FallbackPath(q.ts), eff, By(r, "fallback"))
        good == exit = "ok" /\ NonEmpty(dir, FallbackPath(q.ts))
    IN  /\ q.pc = "fallback"
        /\ NoOutput(q)
        /\ fs' = dir
        /\ req' = [req EXCEPT ![r] =
             [q EXCEPT !.pc = "verify",
                       !.gsCalls = @ + 1,
                       !.ran = @ \cup {"fallback"},
                       !.written = IF eff < 0 THEN @ ELSE @ \cup {FallbackPath(q.ts)},
                       !.output_path = IF good THEN FallbackPath(q.ts) ELSE @,
                       !.compression_success = IF good THEN TRUE ELSE @,
                       !.fallback_error = IF exit = "ok" THEN @
                                          ELSE [attempt |-> "fallback", text |-> exit]]]
        /\ UNCHANGED <<up, clock, lastSweep>>

\* line 267 false: the primary output is kept
CompressKeepPrimary(r) ==
    LET q == req[r]
    IN  /\ q.pc = "fallback"
        /\ ~NoOutput(q)
        /\ req' = [req EXCEPT ![r] = [q EXCEPT !.pc = "verify"]]
        /\ UNCHANGED <<up, clock, fs, lastSweep>>

\* lines 309-317: give up, or measure the input and the chosen output
CompressVerify(r) ==
    LET q == req[r]
    IN  /\ q.pc = "verify"
        /\ req' = [req EXCEPT ![r] =
             IF NoOutput(q)
             THEN Finished(q, ErrorResponse(500,
                      "Compression failed after all attempts", q.stderr_output))
             ELSE IF ~Exists(fs, InputPath(q.ts))
             THEN Finished(q, ErrorResponse(500, "Internal Server Error", NoDiag))
             ELSE [q EXCEPT !.pc = "aggressive",
                            !.orig_size = fs[InputPath(q.ts)].size,
                            !.comp_size = fs[q.output_path].size]]
        /\ UNCHANGED <<up, clock, fs, lastSweep>>

\* (the comparison written > instead of >=)
IneffectiveStrict(q) == q.comp_size > q.orig_size /\ q.level < AggressiveBelow

\* line 320
Ineffective(q) == q.comp_size >= q.orig_size /\ q.level < AggressiveBelow

\* lines 319-360: the aggressive attempt, written over output_path
CompressAggressive(r, exit, eff) ==
    LET q == req[r]
        dir == RunTool(fs, q.output_path, eff, By(r, "aggressive"))
        measured == exit = "ok" /\ Exists(dir, q.output_path)
    IN  /\ q.pc = "aggressive"
        /\ Ineffective(q)
        /\ fs' = dir
        /\ req' = [req EXCEPT ![r] =
             [q EXCEPT !.pc = "respond",
                       !.gsCalls = @ + 1,
                       !.ran = @ \cup {"aggressive"},
                       !.written = IF eff < 0 THEN @ ELSE @ \cup {q.output_path},
                       !.aggressive_ok = (exit = "ok"),
                       !.before = IF Exists(fs, q.output_path)
                                  THEN fs[q.output_path] ELSE NoEntry,
                       !.comp_size = IF measured /\ dir[q.output_path].size < @
                                     THEN dir[q.output_path].size ELSE @]]
        /\ UNCHANGED <<up, clock, lastSweep>>

\* line 320 false
CompressSkipAggressive(r) ==
    LET q == req[r]
    IN  /\ q.pc = "aggressive"
        /\ ~Ineffective(q)
        /\ req' = [req EXCEPT ![r] = [q EXCEPT !.pc = "respond"]]
        /\ UNCHANGED <<up, clock, fs, lastSweep>>

Max(a, b) == IF a >= b THEN a ELSE b

\* n / d rounded to the nearest integer (d > 0)
RoundDiv(n, d) == (2 * n + d) \div (2 * d)

\* (the max(0.0, ...) left out)
ReductionUnclamped(orig, comp) ==
    IF orig > 0 THEN RoundDiv(10000 * (orig - comp), orig) ELSE 0

\* line 363 and the "{reduction:.2f}" of line 373, in hundredths of a percent
Reduction(orig, comp) ==
    IF orig > 0 THEN Max(0, RoundDiv(10000 * (orig - comp), orig)) ELSE 0

\* lines 362-389: the headers, the input removed, the output streamed.
\* rmErr: os.remove(input_path) raises (swallowed by the bare except).
CompressRespond(r, rmErr) ==
    LET q == req[r]
        headers == [orig |-> q.orig_size, comp |-> q.comp_size,
                    reduction |-> Reduction(q.orig_size, q.comp_size),
                    preset |-> Preset(q.level)]
    IN  /\ q.pc = "respond"
        /\ rmErr => Exists(fs, InputPath(q.ts))
        /\ fs' = IF rmErr THEN fs ELSE RemoveFiles(fs, {InputPath(q.ts)})
        /\ req' = [req EXCEPT ![r] =
             IF Exists(fs, q.output_path)
             THEN Finished(q, Response(200, "", NoDiag, headers, q.output_path,
                                       fs[q.output_path]))
             ELSE Finished(q, ErrorResponse(500, "Internal Server Error", NoDiag))]
        /\ UNCHANGED <<up, clock, lastSweep>>

-----------------------------------------------------------------------------
(* merge_pdfs *)

Doc(name, pages, parses) == [name |-> name, pages |-> pages, parses |-> parses]

\* the uploads a client may send: two PDFs, a text file, a file PyPDF2 rejects
Docs == { Doc(NamePdf, <<"a1", "a2">>, TRUE), Doc(NameUpper, <<"b1">>, TRUE),
          Doc(NameTxt, <<"t1">>, TRUE), Doc(NamePdf, <<>>, FALSE) }

FileLists == UNION {[1..n -> Docs] : n \in 0..MaxFiles}

\* lines 108-116: the files parameter, the count check and the output name.
\* files: List[UploadFile] = File(...) is a required field: a request with no
\* file part is answered 422 by the framework and merge_pdfs is not called.
MergeStart(r, files) ==
    /\ up /\ req[r].pc = "idle"
    /\ \A mount \in BOOLEAN : Dispatch(mount, "POST", PathMerge) = "merge_pdfs"
    /\ req' = [req EXCEPT ![r] =
         IF Len(files) = 0
         THEN Finished([IdleReq EXCEPT !.kind = "merge_pdfs", !.path = PathMerge],
                       ErrorResponse(422, "Field required", NoDiag))
         ELSE IF Len(files) < 2
         THEN Finished([IdleReq EXCEPT !.kind = "merge_pdfs", !.path = PathMerge],
                       ErrorResponse(400, "At least 2 PDF files are required", NoDiag))
         ELSE [IdleReq EXCEPT !.pc = "merge", !.kind = "merge_pdfs",
                              !.path = PathMerge, !.files = files,
                              !.ts = StampSeconds(clock),
                              !.output_path = MergedPath(StampSeconds(clock))]]
    /\ UNCHANGED <<up, clock, fs, lastSweep>>

RECURSIVE Concat(_)
\* merger.append over the files, in order
Concat(files) ==
    IF files = <<>> THEN <<>> ELSE Head(files).pages \o Concat(Tail(files))

\* lines 117-132: check and append each file in order, write, stream
MergeRun(r) ==
    LET q == req[r]
        bad == {i \in 1..Len(q.files) :
                   ~IsPdfName(q.files[i].name) \/ ~q.files[i].parses}
        first == CHOOSE i \in bad : \A j \in bad : i <= j
        merged == Entry(TRUE, Len(Concat(q.files)), clock, By(r, "merge"),
                        Concat(q.files))
        done == [q EXCEPT !.files = <<>>]
    IN  /\ q.pc = "merge"
        /\ IF bad # {}
           THEN /\ fs' = fs
                /\ req' = [req EXCEPT ![r] = Finished(done,
                      IF ~IsPdfName(q.files[first].name)
                      THEN ErrorResponse(400, "is not a PDF", NoDiag)
                      ELSE ErrorResponse(500, "Internal Server Error", NoDiag))]
           ELSE /\ fs' = WriteFile(fs, q.output_path, merged)
                /\ req' = [req EXCEPT ![r] =
                      Finished([done EXCEPT !.written = {q.output_path}],
                          Response(200, "", NoDiag, NoHeaders, q.output_path, merged))]
        /\ UNCHANGED <<up, clock, lastSweep>>

-----------------------------------------------------------------------------
(* The process and its environment *)

\* the removals that may fail in one sweep: at most MaxRemoveErrors of them
RemoveErrors == {e \in SUBSET DOMAIN fs : Cardinality(e) <= MaxRemoveErrors}

NoSweep == [now |-> NoTime, removed |-> {}, errors |-> {}]

\* The process starts: startup_event makes the one call of cleanup_old_files,
\* before requests are served.
Startup(errs) ==
    /\ ~up
    /\ CleanupOldFiles(errs)
    /\ up' = TRUE
    /\ UNCHANGED <<clock, req>>

\* The process exits once no request is being handled. What it held in
\* memory is gone; the workspace stays. An answered request is not sent again.
Shutdown ==
    /\ up
    /\ \A r \in Requests : req[r].pc \in {"idle", "done", "gone"}
    /\ up' = FALSE
    /\ lastSweep' = NoSweep
    /\ req' = [r \in Requests |->
                 IF req[r].pc = "idle" THEN req[r] ELSE [IdleReq EXCEPT !.pc = "gone"]]
    /\ UNCHANGED <<clock, fs>>

\* time passes: a microsecond
TickMicro ==
    /\ clock.us + 1 \in Micros
    /\ clock' = Time(clock.sec, clock.us + 1)
    /\ UNCHANGED <<up, fs, lastSweep, req>>

\* time passes: MaxAge seconds. Every attempt is cut off after 60 seconds
\* (timeout=60), so no request is in progress that long.
TickHour ==
    /\ clock.sec < MaxHours * MaxAge
    /\ \A r \in Requests : req[r].pc \in {"idle", "done", "gone"}
    /\ \E u \in Micros : clock' = Time(clock.sec + MaxAge, u)
    /\ UNCHANGED <<up, fs, lastSweep, req>>

\* Before the first start: the clock at its origin, and in the workspace one
\* sub-directory (which cleanup must leave alone)
Init ==
    /\ up = FALSE
    /\ clock = Time(0, 0)
    /\ fs = [p \in {StalePath} |-> Entry(FALSE, 0, Time(0, 0), By("", "mkdir"), <<>>)]
    /\ lastSweep = NoSweep
    /\ req = [r \in Requests |-> IdleReq]

Handle(r) ==
    \/ \E name \in FileNames, level \in Levels, content \in Sizes :
           CompressStart(r, name, level, content)
    \/ \E gs \in BOOLEAN : CompressSave(r, gs)
    \/ \E exit \in Exits, eff \in Effects : CompressPrimary(r, exit, eff)
    \/ \E exit \in Exits, eff \in Effects : CompressFallback(r, exit, eff)
    \/ CompressKeepPrimary(r)
    \/ CompressVerify(r)
    \/ \E exit \in Exits, eff \in Effects : CompressAggressive(r, exit, eff)
    \/ CompressSkipAggressive(r)
    \/ \E rmErr \in BOOLEAN : CompressRespond(r, rmErr)
    \/ \E files \in FileLists : MergeStart(r, files)
    \/ MergeRun(r)
    \/ \E mount \in BOOLEAN, path \in GetPaths, index \in BOOLEAN :
           HttpGet(r, mount, path, index)

Environment ==
    \/ \E errs \in RemoveErrors : Startup(errs)
    \/ Shutdown
    \/ TickMicro
    \/ TickHour

Next == Environment \/ \E r \in {"r1"} : Handle(r)

Spec == Init /\ [][Next]_vars

-----------------------------------------------------------------------------
(* Two requests side by side, the tool well behaved: level 2 compressions of *)
(* a 2-byte PDF to 1 byte, and merges of two PDFs.  The service keeps        *)
(* running: it starts, time passes, and every handler that was entered runs  *)
(* to its end.  Nothing obliges a client to send a request, or the process   *)
(* to be restarted.                                                          *)

Arrive(r) ==
    \/ CompressStart(r, NamePdf, 2, 2)
    \/ MergeStart(r, <<Doc(NamePdf, <<"a1", "a2">>, TRUE), Doc(NameUpper, <<"b1">>, TRUE)>>)

Proceed(r) ==
    \/ CompressSave(r, TRUE)
    \/ CompressPrimary(r, "ok", 1)
    \/ CompressKeepPrimary(r)
    \/ CompressVerify(r)
    \/ CompressSkipAggressive(r)
    \/ CompressRespond(r, FALSE)
    \/ MergeRun(r)

Ticks == TickMicro \/ TickHour

Arrivals == \E r \in Requests : Arrive(r)

Serving == \E r \in Requests : Proceed(r)

NextServing == Startup({}) \/ Shutdown \/ Ticks \/ Arrivals \/ Serving

ServingSpec ==
    /\ Init /\ [][NextServing]_vars
    /\ WF_vars(Startup({})) /\ WF_vars(Ticks) /\ WF_vars(Serving)

-----------------------------------------------------------------------------
(* One compress request, every outcome of the tool.  subprocess.run returns  *)
(* or raises within its timeout of 60 seconds, and nothing else in the       *)
(* handler waits: once entered, compress_pdf takes its next step.            *)

Begin(r) ==
    \E name \in FileNames, level \in Levels, content \in Sizes :
        CompressStart(r, name, level, content)

Continue(r) ==
    \/ \E gs \in BOOLEAN : CompressSave(r, gs)
    \/ \E exit \in Exits, eff \in Effects : CompressPrimary(r, exit, eff)
    \/ \E exit \in Exits, eff \in Effects : CompressFallback(r, exit, eff)
    \/ CompressKeepPrimary(r)
    \/ CompressVerify(r)
    \/ \E exit \in Exits, eff \in Effects : CompressAggressive(r, exit, eff)
    \/ CompressSkipAggressive(r)
    \/ \E rmErr \in BOOLEAN : CompressRespond(r, rmErr)

NextCompress == Startup({}) \/ TickMicro \/ Begin("r1") \/ Continue("r1")

CompressSpec == Init /\ [][NextCompress]_vars /\ WF_vars(Continue("r1"))

-----------------------------------------------------------------------------
(* Properties *)

Done(r) == req[r].pc = "done"

InFlight(r) == req[r].pc \notin {"idle", "done", "gone"}

\* a compress request that passed the name check has returned
Compressed(r) == Done(r) /\ req[r].kind = "compress_pdf" /\ Len(req[r].ts) > 0

\* C1: when a compress request that wrote its input artifact returns, on any
\* exit path, the input artifact no longer exists.
C1_InputRemovedOnReturn ==
    \A r \in Requests :
        Compressed(r) /\ InputPath(req[r].ts) \in req[r].written
            => ~Exists(fs, InputPath(req[r].ts))

\* C2: a compress request with a level outside {0,1,2,3} is answered 400 and
\* has written no file: the workspace holds what it held before.
C2_BadLevelWritesNothing ==
    \A r \in Requests :
        Compressed(r) /\ req[r].level \notin ValidLevels
            => /\ req[r].resp.code = 400
               /\ req[r].written = {}
               /\ ~Exists(fs, InputPath(req[r].ts))

\* C3: with the tool not on the search path, a compress request with a valid
\* name and level ends in the 500 tool-unavailable response, with no tool
\* invocation and no workspace file written.
C3_ToolAbsentNoFileIO ==
    \A r \in Requests :
        Compressed(r) /\ req[r].level \in ValidLevels /\ ~req[r].gs
            => /\ req[r].resp.code = 500
               /\ req[r].resp.detail = "Ghostscript not found"
               /\ req[r].gsCalls = 0
               /\ req[r].written = {}

\* C4: when the escalation attempt fails, or its output is not strictly
\* smaller than the previous one, the file streamed is the previous (primary
\* or fallback) output, unmodified.
C4_EscalationKeepsPrevious ==
    \A r \in Requests :
        /\ Compressed(r) /\ req[r].resp.code = 200
        /\ "aggressive" \in req[r].ran
        /\ (~req[r].aggressive_ok \/ ~(req[r].resp.body.size < req[r].before.size))
        => req[r].resp.body = req[r].before

\* C5: every GET /api/health is answered by health_check: 200 with a status
\* and the current timestamp.
C5_HealthAnsweredByHealthCheck ==
    \A r \in Requests :
        Done(r) /\ req[r].path = PathHealth
            => /\ req[r].resp.handler = "health_check"
               /\ req[r].resp.code = 200
               /\ req[r].resp.json.keys = {"status", "timestamp"}

\* C6: two distinct requests handled at the same time never write the same
\* workspace path, and a request streams only a file it created itself.
C6_DisjointWorkspacePaths ==
    \A r1, r2 \in Requests :
        r1 # r2 =>
            /\ InFlight(r1) /\ InFlight(r2)
                   => req[r1].written \cap req[r2].written = {}
            /\ Done(r1) /\ req[r1].resp.code = 200
                   => req[r1].resp.body.by.req = r1

\* the last attempt a request ran
LastAttempt(q) ==
    IF "aggressive" \in q.ran THEN "aggressive"
    ELSE IF "fallback" \in q.ran THEN "fallback"
    ELSE "primary"

\* C7: the 500 "all attempts failed" response carries the diagnostic text of
\* the last attempt that was run.
C7_LastAttemptDiagnostic ==
    \A r \in Requests :
        Compressed(r) /\ req[r].resp.detail = "Compression failed after all attempts"
            => req[r].resp.diag.attempt = LastAttempt(req[r])

\* every path a handler can create in the workspace, and the one left there
Stamps == {Time(h * MaxAge, u) : h \in 0..MaxHours, u \in Micros}

AllPaths ==
    {StalePath}
    \cup {InputPath(StampMicros(t)) : t \in Stamps}
    \cup {OutputPath(StampMicros(t)) : t \in Stamps}
    \cup {FallbackPath(StampMicros(t)) : t \in Stamps}
    \cup {MergedPath(StampSeconds(t)) : t \in Stamps}

\* a regular file of the workspace is more than MaxAge seconds old
Overdue(p) == Exists(fs, p) /\ fs[p].isfile /\ AgeExceeds(clock, fs[p].mtime, MaxAge)

\* C8: while the service keeps running, every regular workspace file older
\* than one hour is eventually deleted.
C8_EventuallyReaped ==
    \A p \in AllPaths : [](up /\ Overdue(p) => <>(~Exists(fs, p)))

\* the step is one run of cleanup_old_files (the process comes up)
SweepStep == ~up /\ up'

\* C9 as stated: after every cleanup, each regular file at most 3600 seconds
\* old is still there and each regular file older than that is gone.
C9_CleanupExact ==
    [][SweepStep =>
        \A p \in DOMAIN fs :
            fs[p].isfile =>
                IF AgeExceeds(clock, fs[p].mtime, MaxAge)
                THEN ~Exists(fs', p)
                ELSE Exists(fs', p) /\ fs'[p] = fs[p]]_vars

\* C9, amended: after every cleanup, each regular file at most 3600 seconds
\* old is still there, unchanged, and each regular file older than that is
\* gone unless its removal raised an error, which is logged and leaves the
\* file in place.
C9_CleanupBestEffort ==
    [][SweepStep =>
        \A p \in DOMAIN fs :
            fs[p].isfile =>
                IF AgeExceeds(clock, fs[p].mtime, MaxAge) /\ p \notin lastSweep'.errors
                THEN ~Exists(fs', p)
                ELSE Exists(fs', p) /\ fs'[p] = fs[p]]_vars

\* a cleanup has removed an old file, failed to remove another, and left a
\* regular file that was not yet older than 3600 seconds
C9_Witness ==
    /\ up
    /\ lastSweep.removed # {}
    /\ lastSweep.errors # {}
    /\ \E p \in DOMAIN fs :
           /\ fs[p].isfile
           /\ ~AgeExceeds(lastSweep.now, fs[p].mtime, MaxAge)

\* C10: in every 200 compress response the reduction percentage (held in
\* hundredths of a percent) is between 0 and 100.
C10_ReductionInRange ==
    \A r \in Requests :
        Compressed(r) /\ req[r].resp.code = 200
            => /\ req[r].resp.headers.reduction >= 0
               /\ req[r].resp.headers.reduction <= 10000

\* a 200 compress response for an empty original and a larger output
C10_Witness ==
    \E r \in Requests :
        /\ Compressed(r) /\ req[r].resp.code = 200
        /\ req[r].resp.headers.orig = 0
        /\ req[r].resp.headers.comp > req[r].resp.headers.orig
        /\ req[r].resp.headers.reduction = 0

-----------------------------------------------------------------------------
(* merge_pdfs and the name checks *)

RECURSIVE PagesBefore(_, _)
\* the number of pages in the files before the i-th
PagesBefore(files, i) ==
    IF i <= 1 THEN 0 ELSE PagesBefore(files, i - 1) + Len(files[i - 1].pages)

\* every file of the list has a PDF name and is a PDF the library reads
AllValid(files) ==
    \A i \in 1..Len(files) : IsPdfName(files[i].name) /\ files[i].parses

\* some file of the list has a name not ending in ".pdf"
HasBadName(files) == \E i \in 1..Len(files) : ~IsPdfName(files[i].name)

\* the step answers request r with code, streams nothing and leaves the
\* workspace as it was
Refused(r, code) ==
    /\ req'[r].pc = "done"
    /\ req'[r].resp.code = code
    /\ req'[r].resp.bodyPath = NoPath
    /\ req'[r].written = {}
    /\ fs' = fs

\* C11: a merge request with 0 or 1 files is answered 400 and writes no
\* output; a merge request with two or more valid PDFs writes exactly one
\* output document, whose pages are the pages of the inputs in input-file
\* order, each file's pages in their order, so that its page count is the sum
\* of the inputs' page counts.
C11_MergeContract ==
    [][\A r \in Requests :
         /\ \A files \in FileLists :
                Len(files) < 2 /\ MergeStart(r, files) => Refused(r, 400)
         /\ (req[r].pc = "merge" /\ req'[r].pc = "done" /\ AllValid(req[r].files))
              => LET files == req[r].files
                     out == req'[r].resp.body.pages
                 IN  /\ req'[r].resp.code = 200
                     /\ DOMAIN fs' = DOMAIN fs \cup {req'[r].resp.bodyPath}
                     /\ \A p \in DOMAIN fs : p # req'[r].resp.bodyPath => fs'[p] = fs[p]
                     /\ fs'[req'[r].resp.bodyPath] = req'[r].resp.body
                     /\ Len(out) = PagesBefore(files, Len(files) + 1)
                     /\ \A i \in 1..Len(files) :
                            \A k \in 1..Len(files[i].pages) :
                                out[PagesBefore(files, i) + k] = files[i].pages[k]
      ]_vars

\* C12: a merge or compress request with a file whose name does not end in
\* ".pdf" (in any letter case), at any position of the merge list, is answered
\* 400 and leaves the workspace unchanged: no file is created and nothing is
\* streamed.
C12_BadNameRefused ==
    [][\A r \in Requests :
         /\ \A name \in FileNames, level \in Levels, content \in Sizes :
                ~IsPdfName(name) /\ CompressStart(r, name, level, content)
                    => Refused(r, 400)
         /\ \A files \in FileLists :
                HasBadName(files) /\ MergeStart(r, files) /\ req'[r].pc = "done"
                    => Refused(r, 400)
         /\ (req[r].pc = "merge" /\ req'[r].pc = "done" /\ HasBadName(req[r].files))
                => Refused(r, 400)
      ]_vars

-----------------------------------------------------------------------------
(* The compression pipeline *)

\* C13: every compress request returns a response, and the handler runs the
\* external tool at most three times for it, no attempt more than once.
C13_CompressReturns ==
    /\ [](\A r \in Requests :
             /\ req[r].gsCalls <= 3
             /\ req[r].gsCalls = Cardinality(req[r].ran))
    /\ \A r \in Requests : InFlight(r) ~> Done(r)

\* a compress request answered 200 after three runs of the tool
C13_Witness ==
    \E r \in Requests :
        /\ Compressed(r) /\ req[r].resp.code = 200
        /\ req[r].gsCalls = 3
        /\ req[r].ran = {"primary", "fallback", "aggressive"}

\* C14: in every 200 compress response, X-Quality-Setting names the preset
\* the streamed output was produced with; for an output of the fallback
\* attempt that is the fallback's lowest-fidelity preset.
C14_ReportedPresetUsed ==
    \A r \in Requests :
        Compressed(r) /\ req[r].resp.code = 200
            => req[r].resp.headers.preset =
                   AttemptPreset(req[r].resp.body.by.attempt, req[r].level)

\* the success condition of the primary attempt, on its own output file:
\* clean exit, the file exists, its size is not zero
PrimaryMet(q) ==
    /\ "primary" \in q.ran
    /\ q.stderr_output.text = "ok"
    /\ NonEmpty(fs, OutputPath(q.ts))

\* the same for the fallback attempt
FallbackMet(q) ==
    /\ "fallback" \in q.ran
    /\ q.fallback_error = NoDiag
    /\ NonEmpty(fs, FallbackPath(q.ts))

C16_EscalationExactlyWhen ==
    [][\A r \in Requests :
         LET q == req[r]
             q2 == req'[r]
         IN  /\ (q.pc = "aggressive" /\ q2.pc = "respond")
                  => (("aggressive" \in q2.ran) <=>
                         /\ NonEmpty(fs, q.output_path)
                         /\ fs[q.output_path].size >= fs[InputPath(q.ts)].size
                         /\ q.level \in {0, 1})
             /\ ("aggressive" \in q.ran /\ "aggressive" \in q2.ran)
                  => q2.gsCalls = q.gsCalls
             /\ "aggressive" \in q2.ran
                  => /\ q2.level \in {0, 1}
                     /\ q2.resp.detail # "Compression failed after all attempts"
      ]_vars

\* a level 1 request whose output was exactly as large as its input, and
\* which ran the escalation attempt
C16_Witness ==
    \E r \in Requests :
        /\ Compressed(r) /\ req[r].resp.code = 200
        /\ req[r].level = 1
        /\ "aggressive" \in req[r].ran
        /\ req[r].before.size = req[r].resp.headers.orig

\* C17: in every 200 compress response X-Compressed-Size is the size of the
\* file streamed, and X-Reduction-Percentage is computed from that size.
C17_HeaderMatchesBody ==
    \A r \in Requests :
        Compressed(r) /\ req[r].resp.code = 200
            => /\ req[r].resp.headers.comp = req[r].resp.body.size
               /\ req[r].resp.headers.reduction =
                      Reduction(req[r].resp.headers.orig, req[r].resp.body.size)

=============================================================================
